---- MODULE Spec2Model ----
(***************************************************************************)
(* A model of sylph's API driver (SylphApiDriver / SylphApiClient in       *)
(* wrappers.py, with the envelopes of data_obj.py it builds) and of the    *)
(* retry policy that retriable() configures.                               *)
(*                                                                         *)
(* Texts (Python str values) are non-empty sequences of tokens, so that    *)
(* "the message contains X" is a statement about sub-sequences; Python's   *)
(* None is the empty sequence.                                             *)
(***************************************************************************)
EXTENDS Naturals, Sequences, FiniteSets, TLC

VARIABLES
    method,           \* SylphApiDriver._method
    target,           \* SylphApiDriver._target
    contract_error,   \* SylphApiDriver.contract_error (a ContractViolation)
    response_error,   \* SylphApiDriver.response_error (unset until first assigned)
    calls,            \* history: number of send_request calls started on the driver
    recorded_in,      \* history: value of calls when contract_error was last assigned
    received,         \* the response the caller holds, with the request that produced it
    last,             \* history: the operation that ran last, its inputs and its outcome
    rs,               \* the state of one retriable-wrapped call (tenacity's retry state)
    fx                \* one call of a function of data_obj.py: its input and its result

vars ==
    <<method, target, contract_error, response_error, calls, recorded_in, received, last, rs,
      fx>>

driver_vars ==
    <<method, target, contract_error, response_error, calls, recorded_in, received, last>>

\* Bounds of the model.
MaxCalls == 3

MaxRetries == 3

MaxSegments == 3

\* Envelopes in one chain of derivations: the original metadata and those derived
MaxEnvelopes == 3

\* Changes made to metadata objects in one behaviour
MaxChanges == 2

\* The longest wait, in seconds, a polling call is given
MaxWait == 3

\* The deepest working directory a session is created in
MaxDepth == 4

----------------------------------------------------------------------------
\* Python values

None == <<>>

\* f'{x}': None is rendered as the text None, a text as itself
Str(x) == IF x = None THEN <<"None">> ELSE x

\* text occurs in msg as a contiguous run of tokens
Contains(msg, text) ==
    \E i \in 1..(Len(msg) + 1) :
        /\ i + Len(text) - 1 <= Len(msg)
        /\ SubSeq(msg, i, i + Len(text) - 1) = text

\* An exception: its type name and its args tuple (args[1] is Python's args[0]).
Exc(type, args) == [type |-> type, args |-> args]

NoExc == Exc("-", <<>>)

----------------------------------------------------------------------------
\* The transport's replies

\* JSON documents, as json.loads returns them.
JsonInvalid == [t |-> "invalid"]

JsonNum == [t |-> "num"]

JsonDict(entries) == [t |-> "dict", entries |-> entries]

JsonList(items) == [t |-> "list", items |-> items]

\* response.content: size is len(content) > 0, utf8 whether the bytes decode as
\* UTF-8, doc the JSON document the text denotes (JsonInvalid if none), text
\* is response.text.
Content(size, utf8, doc, text) == [size |-> size, utf8 |-> utf8, doc |-> doc, text |-> text]

Contents ==
    { Content(0, TRUE, JsonInvalid, None),
      Content(1, FALSE, JsonInvalid, <<"\\ufffd">>),
      Content(1, TRUE, JsonInvalid, <<"<html>", "oops", "</html>">>),
      Content(1, TRUE, JsonDict([errorCode |-> <<"E42">>, errorMessage |-> <<"denied">>]),
              <<"{errorCode:E42,errorMessage:denied}">>),
      Content(1, TRUE, JsonDict([id |-> <<"7">>]), <<"{id:7}">>),
      Content(1, TRUE, JsonList(<<JsonDict([id |-> <<"7">>]), JsonNum>>), <<"[{id:7},1]">>),
      Content(1, TRUE, JsonList(<<JsonNum, JsonDict([id |-> <<"7">>])>>), <<"[1,{id:7}]">>),
      Content(1, TRUE, JsonList(<<>>), <<"[]">>),
      Content(1, TRUE, JsonNum, <<"1">>) }

\* A requests.Response: ok is the library's status_code < 400.
Response(status_code, reason, ok, content) ==
    [status_code |-> status_code, reason |-> reason, ok |-> ok, content |-> content]

Statuses ==
    { [status_code |-> <<"200">>, reason |-> <<"OK">>, ok |-> TRUE],
      [status_code |-> <<"404">>, reason |-> <<"Not", "Found">>, ok |-> FALSE],
      [status_code |-> <<"500">>, reason |-> None, ok |-> FALSE] }

Responses == { Response(s.status_code, s.reason, s.ok, c) : s \in Statuses, c \in Contents }

NoResponse == [absent |-> TRUE]

\* A requests.RequestException as the transport raises it: has_request is
\* whether exc.request is set; shape describes exc.args: "empty" is (),
\* "text" is (str,), "nested" is (exception with a message,), "nested_empty" is
\* (exception without args,).
RequestException(type, has_request, shape) ==
    [type |-> type, has_request |-> has_request, shape |-> shape]

RequestExceptions ==
    { RequestException("ConnectionError", TRUE, "nested"),
      RequestException("ConnectionError", TRUE, "nested_empty"),
      RequestException("ReadTimeout", TRUE, "nested"),
      RequestException("MissingSchema", FALSE, "text"),
      RequestException("InvalidURL", TRUE, "text"),
      RequestException("RequestException", FALSE, "empty"),
      RequestException("RequestException", TRUE, "empty") }

NoRequestException == RequestException("-", FALSE, "empty")

\* What requests.request does: it raises exc, or returns response.
Reply(raises, exc, response) == [raises |-> raises, exc |-> exc, response |-> response]

Replies ==
    { Reply(TRUE, e, NoResponse) : e \in RequestExceptions }
        \cup { Reply(FALSE, NoRequestException, r) : r \in Responses }

\* The requests the model's caller makes: the verb, and urlparse(url).path
Requests ==
    { [method |-> <<"GET">>, path |-> <<"/api/v2/users">>],
      [method |-> <<"POST">>, path |-> <<"/items">>] }

----------------------------------------------------------------------------
\* data_obj.py

\* json.loads(response.content.decode('utf-8'))
json_loads(content) ==
    IF ~content.utf8 THEN [exc |-> Exc("UnicodeDecodeError", <<<<"utf-8">>>>), val |-> JsonInvalid]
    ELSE IF content.doc = JsonInvalid
         THEN [exc |-> Exc("JSONDecodeError", <<<<"Expecting", "value">>>>), val |-> JsonInvalid]
         ELSE [exc |-> NoExc, val |-> content.doc]

NoData == [absent |-> TRUE]

\* What a SylphDataDict is built from (its data_source): a SylphDataGenerator,
\* a SylphRequestMetadata (of the named generator), or anything else.
Generator(name) == [kind |-> "generator", data_generator |-> name]

MetadataSource(name) == [kind |-> "metadata", data_generator |-> name]

OtherSource == [kind |-> "other", data_generator |-> "-"]

\* SylphDataDict(data_source, data): the dict has the attribute metadata only
\* for a data_source of the first two kinds.
SylphDataDict(data_source, data) ==
    [is_data_dict |-> TRUE, has_metadata |-> data_source.kind \in {"generator", "metadata"},
     data_generator |-> data_source.data_generator, data |-> data]

\* A plain dict given as the data argument
PlainDict(data) ==
    [is_data_dict |-> FALSE, has_metadata |-> FALSE, data_generator |-> "-", data |-> data]

\* both_given with the test dropped
both_given_unchecked(response, data) == FALSE

\* "if response is not None and data is not None"
both_given(response, data) == response # NoResponse /\ data # NoData

\* SylphDataObject.__init__: the exception it raises (NoExc if none),
\* metadata.source_data as it leaves it, and metadata_from, the argument the
\* fields of self.metadata were set from when it returned or raised ("-": the
\* metadata is still the fresh SylphRequestMetadata).
SylphDataObject_init(response, data) ==
    LET out(exc, source_data, from) ==
            [exc |-> exc, source_data |-> source_data, metadata_from |-> from]
    IN  IF both_given(response, data)
        THEN out(Exc("SylphObjectInitException",
                     <<<<"Must", "be", "either", "a", "Response", "or", "a", "SylphDataDict">>>>),
                 JsonInvalid, "-")
        ELSE IF response = NoResponse
        THEN IF data = NoData
             THEN out(NoExc, JsonList(<<>>), "automation")
             ELSE IF ~data.is_data_dict
             THEN out(Exc("SylphObjectInitException",
                          <<<<"If", "data", "is", "provided,", "it", "must", "be", "a",
                              "SylphDataDict">>>>),
                      JsonInvalid, "-")
             ELSE IF ~data.has_metadata
             THEN out(Exc("AttributeError",
                          <<<<"'SylphDataDict'", "object", "has", "no", "attribute",
                              "'metadata'">>>>),
                      JsonInvalid, "-")
             ELSE out(NoExc, JsonDict(data.data), "data")
        ELSE LET dec == json_loads(response.content)
             IN  out(dec.exc, dec.val, "response")

\* A ResponseError instance
NoResponseError ==
    [set |-> FALSE, ok |-> FALSE, error_code |-> None, error_message |-> None,
     status_code |-> None, reason |-> None]

\* The attribute self._src after the base constructor ran: only the
\* JSONDecodeError handler of ResponseError.__init__ assigns it.
ResponseError_src(response, base) ==
    IF base.exc.type = "JSONDecodeError"
    THEN [set |-> TRUE,
          errorCode |-> IF response # NoResponse THEN response.status_code ELSE None,
          errorMessage |-> IF response # NoResponse THEN response.reason ELSE None]
    ELSE [set |-> FALSE, errorCode |-> None, errorMessage |-> None]

\* ResponseError.__init__: the exception it raises (NoExc if none) and the
\* instance it builds.
ResponseError_init(response, data) ==
    LET base == SylphDataObject_init(response, data)
        src == ResponseError_src(response, base)
    IN  IF base.exc # NoExc /\ base.exc.type # "JSONDecodeError"
        THEN [exc |-> base.exc, obj |-> NoResponseError]
        ELSE IF ~src.set
        THEN [exc |-> Exc("AttributeError",
                          <<<<"'ResponseError'", "object", "has", "no", "attribute", "'_src'">>>>),
              obj |-> NoResponseError]
        ELSE LET message == IF src.errorMessage # None THEN src.errorMessage
                            ELSE IF response # NoResponse THEN response.content.text ELSE None
             IN  [exc |-> NoExc,
                  obj |-> [set |-> TRUE, ok |-> FALSE,
                           error_code |-> src.errorCode,
                           error_message |-> message,
                           status_code |-> IF response # NoResponse THEN response.status_code
                                           ELSE src.errorCode,
                           reason |-> IF response # NoResponse THEN response.reason ELSE None]]

\* ContractViolation.__init__ over a SylphDataDict
ContractViolation(data) ==
    [dto_name |-> data.data.dto_name, dto_path |-> data.data.dto_path,
     dto_exc |-> data.data.dto_exc]

----------------------------------------------------------------------------
\* wrappers.py: SylphApiDriver

\* "init empty ContractViolation instance"
EmptyContractViolation ==
    ContractViolation(SylphDataDict(Generator("automation"),
        [dto_name |-> None, dto_path |-> None, dto_exc |-> None]))


\* A caller's DTO class: its __name__ and the dotted path str(dto) shows.
NoDto == [name |-> None, path |-> None]

DTOs ==
    { [name |-> <<"UserDto">>, path |-> <<"dtos.user.UserDto">>],
      [name |-> <<"ItemList">>, path |-> <<"dtos.items.ItemList">>] }

\* What a DTO's own constructor body does after the base constructor
\* returned: nothing, a failed key lookup, a failed bare assert.
DtoFailures == { NoExc, Exc("KeyError", <<<<"'id'">>>>), Exc("AssertionError", <<>>) }

\* SylphApiDriver.process_contract_exception(exc, dto), with prev the slot
\* before the call: the exception it raises (NoExc if none) and the slot after.
process_contract_exception(exc, dto, prev) ==
    LET err == exc.type
        dto_name == IF dto # NoDto THEN dto.name ELSE None
        dto_path == IF dto # NoDto THEN dto.path ELSE None
    IN  IF Len(exc.args) = 0
        THEN [exc |-> Exc("IndexError", <<<<"tuple", "index", "out", "of", "range">>>>),
              contract_error |-> prev]
        ELSE LET dto_exc == <<err, ":">> \o Str(exc.args[1])
                 err_data == [dto_name |-> dto_name, dto_path |-> dto_path, dto_exc |-> dto_exc]
             IN  [exc |-> NoExc,
                  contract_error |-> ContractViolation(SylphDataDict(Generator("api_request"), err_data))]

\* validate_contract_msg with the DTO name left out of the message
validate_contract_msg_unnamed(slot) == Str(slot.dto_exc)

\* The text after the label in validate_contract's assertion message
validate_contract_msg(slot) ==
    IF slot.dto_name # None THEN Str(slot.dto_name) \o Str(slot.dto_exc) ELSE Str(slot.dto_exc)

\* SylphApiDriver.validate_contract: the AssertionError it raises, or NoExc.
validate_contract_exc(m, t, slot) ==
    IF slot.dto_exc # None
    THEN Exc("AssertionError",
             << Str(m) \o Str(t) \o <<"\n", "Issue:">> \o validate_contract_msg(slot) >>)
    ELSE NoExc

\* A value of the violation slot with the history of its assignment: at is the
\* number of send_request calls started when the slot was assigned.
Slot(violation, at) == [violation |-> violation, at |-> at]

\* init_contract_error without the reset: the call goes on with the slot as it was
keep_contract_error(prev, now) == prev

\* send_request's first statements, in call number now: the violation slot as
\* the call goes on with it
init_contract_error(prev, now) == Slot(EmptyContractViolation, now)

\* http_failure with the test of response.ok dropped
http_failure_always(response) == TRUE

\* "if not response.ok": the exchange is an HTTP failure
http_failure(response) == ~response.ok

\* The except-RequestException handler of send_request up to the assignment of
\* self.response_error: the exception the handler itself raises, and the
\* ResponseError it builds.
transport_failure(exc) ==
    IF ~exc.has_request
    THEN [exc |-> Exc("AttributeError",
                      <<<<"'NoneType'", "object", "has", "no", "attribute", "'url'">>>>),
          obj |-> NoResponseError]
    ELSE IF exc.shape = "empty"
    THEN [exc |-> Exc("IndexError", <<<<"tuple", "index", "out", "of", "range">>>>),
          obj |-> NoResponseError]
    ELSE IF exc.shape = "text"
    THEN [exc |-> Exc("AttributeError",
                      <<<<"'str'", "object", "has", "no", "attribute", "'args'">>>>),
          obj |-> NoResponseError]
    ELSE IF exc.shape = "nested_empty"
    THEN [exc |-> Exc("IndexError", <<<<"tuple", "index", "out", "of", "range">>>>),
          obj |-> NoResponseError]
    ELSE LET err_data == [errorCode |-> <<exc.type>>,
                          errorMessage |-> <<"url", "\n", "nested", "message">>]
         IN  ResponseError_init(NoResponse, SylphDataDict(Generator("api_request"), err_data))

\* shape_check without the tolerance for a list: the document itself must be a mapping
shape_check_strict(content) ==
    LET dec == json_loads(content)
    IN  IF dec.exc # NoExc THEN dec.exc
        ELSE IF dec.val.t # "dict"
        THEN Exc("Exception", <<<<"Response", "content", "is", "not", "a", "dictionary:">>>>)
        ELSE NoExc

\* "handler to trap responses that are not valid json dictionaries": the
\* exception the try block raises (NoExc if the body passes).
shape_check(content) ==
    LET dec == json_loads(content)
    IN  IF dec.exc # NoExc THEN dec.exc
        ELSE IF dec.val.t = "list" /\ Len(dec.val.items) = 0
        THEN Exc("IndexError", <<<<"list", "index", "out", "of", "range">>>>)
        ELSE LET src == IF dec.val.t = "list" THEN dec.val.items[1] ELSE dec.val
             IN  IF src.t # "dict"
                 THEN Exc("Exception", <<<<"Response", "content", "is", "not", "a", "dictionary:">>>>)
                 ELSE NoExc

\* What a call hands back: kind is the type of the returned object ("-" when
\* the call raised instead, "None" when it returned nothing).
Returned(kind, ok, status_code, reason, error_code) ==
    [kind |-> kind, ok |-> ok, status_code |-> status_code, reason |-> reason,
     error_code |-> error_code]

NoReturn == Returned("-", FALSE, None, None, None)

ReturnedResponse(r) == Returned("Response", r.ok, r.status_code, r.reason, None)

ReturnedError(e) == Returned("ResponseError", e.ok, e.status_code, e.reason, e.error_code)

\* The guard of the shape check with "response.ok" left out
reaches_shape_check_unguarded(response, validate_json) ==
    validate_json /\ response.content.size > 0

\* "if response.ok and validate_json and len(response.content) > 0"
reaches_shape_check(response, validate_json) ==
    response.ok /\ validate_json /\ response.content.size > 0

\* SylphApiDriver.send_request(method=m, url with path t, validate_json) as
\* call number now, when requests.request does reply: the exception the call
\* raises (NoExc if none), what it returns, and the two slots after it.
send_request_outcome(reply, validate_json, prev_slot, prev_error, now) ==
    LET slot0 == init_contract_error(prev_slot, now)
        out(exc, ret, slot, error) ==
            [exc |-> exc, ret |-> ret, slot |-> slot, response_error |-> error]
    IN  IF reply.raises
        THEN LET h == transport_failure(reply.exc)
             IN  IF h.exc # NoExc THEN out(h.exc, NoReturn, slot0, prev_error)
                 ELSE out(NoExc, ReturnedError(h.obj), slot0, h.obj)
        ELSE LET response == reply.response
                 built == IF http_failure(response)
                          THEN ResponseError_init(response, NoData)
                          ELSE [exc |-> NoExc, obj |-> prev_error]
             IN  IF built.exc # NoExc THEN out(built.exc, NoReturn, slot0, prev_error)
                 ELSE IF reaches_shape_check(response, validate_json)
                 THEN LET bad == shape_check(response.content)
                          pce == process_contract_exception(bad, NoDto, slot0.violation)
                      IN  IF bad = NoExc THEN out(NoExc, ReturnedResponse(response), slot0, built.obj)
                          ELSE IF pce.exc # NoExc THEN out(pce.exc, NoReturn, slot0, built.obj)
                          ELSE out(NoExc, ReturnedResponse(response),
                                   Slot(pce.contract_error, now), built.obj)
                 ELSE out(NoExc, ReturnedResponse(response), slot0, built.obj)

\* SylphApiClient.deserialize(response, dto), where the DTO's own
\* constructor body does own: the exception raised while constructing the
\* DTO, the exception deserialize raises, what it returns and the slot after.
\* (The guard "response.ok or hasattr(response, 'status_code')" holds of every
\* requests response.)
deserialize_outcome(response, dto, own, prev_violation) ==
    LET base == SylphDataObject_init(response, NoData)
        ctor == IF base.exc # NoExc THEN base.exc ELSE own
    IN  IF ctor = NoExc
        THEN [ctor |-> ctor, exc |-> NoExc, ret |-> Returned("DTO", TRUE, None, None, None),
              contract_error |-> prev_violation]
        ELSE LET pce == process_contract_exception(ctor, dto, prev_violation)
             IN  [ctor |-> ctor, exc |-> pce.exc,
                  ret |-> IF pce.exc # NoExc THEN NoReturn
                          ELSE Returned("None", FALSE, None, None, None),
                  contract_error |-> pce.contract_error]


----------------------------------------------------------------------------
\* The driver as a state machine: one client, used serially.

\* The record of the operation that ran last: pending is whether the violation
\* slot held a violation when the operation started.
Op(op, reply, validate_json, dto, ctor, exc, ret, pending) ==
    [op |-> op, reply |-> reply, validate_json |-> validate_json,
     dto |-> dto, ctor |-> ctor, exc |-> exc, ret |-> ret, pending |-> pending]

NoReply == Reply(FALSE, NoRequestException, NoResponse)

ReturnedNone == Returned("None", FALSE, None, None, None)

\* A response in the caller's hands, and the request whose send_request
\* returned it
Held(response, request) == [response |-> response, request |-> request]

\* The caller holds no response
NoHeld == Held(NoResponse, [method |-> None, path |-> None])

\* SylphApiDriver.__init__
DriverInit ==
    /\ method = None
    /\ target = None
    /\ contract_error = EmptyContractViolation
    /\ response_error = NoResponseError
    /\ calls = 0
    /\ recorded_in = 0
    /\ received = NoHeld
    /\ last = Op("__init__", NoReply, FALSE, NoDto, NoExc, NoExc, NoReturn, FALSE)

send_request ==
    \E rq \in Requests, reply \in Replies, validate_json \in BOOLEAN :
        /\ calls < MaxCalls
        /\ LET o == send_request_outcome(reply, validate_json,
                                         Slot(contract_error, recorded_in),
                                         response_error, calls + 1)
           IN  /\ calls' = calls + 1
               /\ method' = rq.method
               /\ target' = rq.path
               /\ contract_error' = o.slot.violation
               /\ recorded_in' = o.slot.at
               /\ response_error' = o.response_error
               /\ received' \in IF o.ret.kind = "Response"
                                THEN {Held(reply.response, rq), received} \ {NoHeld}
                                ELSE {received}
               /\ last' = Op("send_request", reply, validate_json, NoDto, NoExc,
                             o.exc, o.ret, contract_error.dto_exc # None)

\* The caller deserializes the response it holds.
deserialize ==
    \E dto \in DTOs, own \in DtoFailures :
        /\ received # NoHeld
        /\ LET o == deserialize_outcome(received.response, dto, own, contract_error)
           IN  /\ contract_error' = o.contract_error
               /\ recorded_in' = IF o.ctor # NoExc /\ o.exc = NoExc THEN calls ELSE recorded_in
               /\ last' = Op("deserialize", NoReply, FALSE, dto, o.ctor, o.exc, o.ret,
                             contract_error.dto_exc # None)
               /\ UNCHANGED <<method, target, response_error, calls, received>>

\* A direct call of the driver's public process_contract_exception
record_violation ==
    \E exc \in (DtoFailures \ {NoExc}), dto \in DTOs \cup {NoDto} :
        LET o == process_contract_exception(exc, dto, contract_error)
        IN  /\ contract_error' = o.contract_error
            /\ recorded_in' = IF o.exc = NoExc THEN calls ELSE recorded_in
            /\ last' = Op("process_contract_exception", NoReply, FALSE, dto, exc, o.exc,
                          IF o.exc = NoExc THEN ReturnedNone ELSE NoReturn,
                          contract_error.dto_exc # None)
            /\ UNCHANGED <<method, target, response_error, calls, received>>

validate_contract ==
    LET exc == validate_contract_exc(method, target, contract_error)
    IN  /\ last' = Op("validate_contract", NoReply, FALSE, NoDto, NoExc, exc,
                      IF exc = NoExc THEN ReturnedNone ELSE NoReturn,
                      contract_error.dto_exc # None)
        /\ UNCHANGED <<method, target, contract_error, response_error, calls, recorded_in,
                       received>>

----------------------------------------------------------------------------
\* wrappers.py: retriable, one wrapped call run by tenacity's retry loop.

\* What one invocation of the wrapped action does: it returns, or raises an
\* exception of the named type.
Outcomes == {"returned", "RetryTrigger", "ValueError"}

RetryIntervals == {0, 5}

\* stop_after_attempt off by one: one attempt more than configured
stop_after_attempt_late(max_retries, attempt_number) == attempt_number > max_retries

\* 'stop': stop_after_attempt(max_retries)
stop_after_attempt(max_retries, attempt_number) == attempt_number >= max_retries

\* a wait that grows with the attempts in place of wait_fixed
wait_incrementing(retry_interval, attempt_number) == retry_interval * attempt_number

\* 'wait': wait_fixed(retry_interval)
wait_fixed(retry_interval, attempt_number) == retry_interval

\* retry_if that asks for another attempt after every outcome, a return included
retry_if_always(upon_exception, outcome) == TRUE

\* retry_if with upon_exception ignored: every exception is retried
retry_if_any(upon_exception, outcome) == outcome # "returned"

\* 'retry': retry_if_exception_type(RetryTrigger) if upon_exception, else
\* tenacity's default, retry_if_exception_type(Exception)
retry_if(upon_exception, outcome) ==
    IF upon_exception THEN outcome = "RetryTrigger" ELSE outcome # "returned"

\* give_up as with reraise=True: the last attempt's own exception is raised
give_up_reraise(outcome) == [raised |-> outcome, cause |-> "-"]

\* retriable passes no reraise (and no retry_error_callback) to tenacity:
\* when it stops, tenacity raises RetryError from the last attempt's exception.
give_up(outcome) == [raised |-> "RetryError", cause |-> outcome]

\* custom_before_sleep: what the log entry reports
custom_before_sleep(attempt_number, sleep, outcome) ==
    [attempt |-> attempt_number, sleep |-> sleep, exc |-> outcome]

IdleRetry ==
    [pc |-> "idle", max_retries |-> 1, retry_interval |-> 0, upon_exception |-> FALSE,
     attempt_number |-> 1, outcomes |-> <<>>, slept |-> <<>>, log |-> <<>>,
     result |-> "-", raised |-> "-", cause |-> "-"]

\* retriable(max_retries, retry_interval, upon_exception) wraps an action and
\* the wrapper is called.
RetryInit ==
    \E n \in 1..MaxRetries, i \in RetryIntervals, u \in BOOLEAN :
        rs = [IdleRetry EXCEPT !.pc = "attempt", !.max_retries = n,
                               !.retry_interval = i, !.upon_exception = u]

\* The loop invokes the wrapped action.
Attempt ==
    /\ rs.pc = "attempt"
    /\ \E outcome \in Outcomes :
           rs' = [rs EXCEPT !.pc = "iter", !.outcomes = Append(@, outcome)]
    /\ UNCHANGED <<driver_vars, fx>>

\* The loop looks at the attempt's outcome and hands the result back, hands
\* the exception on, gives up, or logs and schedules a sleep.
Iter ==
    /\ rs.pc = "iter"
    /\ LET outcome == rs.outcomes[Len(rs.outcomes)]
       IN  IF ~retry_if(rs.upon_exception, outcome)
           THEN rs' = [rs EXCEPT !.pc = "done",
                                 !.result = IF outcome = "returned" THEN "returned" ELSE "-",
                                 !.raised = IF outcome = "returned" THEN "-" ELSE outcome]
           ELSE IF stop_after_attempt(rs.max_retries, rs.attempt_number)
           THEN rs' = [rs EXCEPT !.pc = "done",
                                 !.raised = give_up(outcome).raised,
                                 !.cause = give_up(outcome).cause]
           ELSE LET sleep == wait_fixed(rs.retry_interval, rs.attempt_number)
                IN  rs' = [rs EXCEPT !.pc = "sleep",
                                     !.log = Append(@, custom_before_sleep(rs.attempt_number,
                                                                           sleep, outcome))]
    /\ UNCHANGED <<driver_vars, fx>>

\* The loop sleeps and prepares the next attempt.
Sleep ==
    /\ rs.pc = "sleep"
    /\ rs' = [rs EXCEPT !.pc = "attempt",
                        !.attempt_number = @ + 1,
                        !.slept = Append(@, rs.log[Len(rs.log)].sleep)]
    /\ UNCHANGED <<driver_vars, fx>>

----------------------------------------------------------------------------
\* Specifications

\* No function call is under way.
IdleFx == [fn |-> "-"]

Init == DriverInit /\ rs = IdleRetry /\ fx = IdleFx

Next ==
    \/ send_request /\ UNCHANGED <<rs, fx>>
    \/ deserialize /\ UNCHANGED <<rs, fx>>
    \/ record_violation /\ UNCHANGED <<rs, fx>>
    \/ validate_contract /\ UNCHANGED <<rs, fx>>

\* One driver, used serially.
Spec == Init /\ [][Next]_vars

RetrySpecInit == DriverInit /\ RetryInit /\ fx = IdleFx

RetryNext == Attempt \/ Iter \/ Sleep

\* One call of a retriable-wrapped action.
RetrySpec == RetrySpecInit /\ [][RetryNext]_vars


----------------------------------------------------------------------------
\* Properties of the driver (checked under Spec)

\* The last operation was a send_request whose exchange completed with response r
Sent(r) == last.op = "send_request" /\ ~last.reply.raises /\ last.reply.response = r

\* C1: a send_request whose exchange completes with a non-2xx status does not
\* raise and returns a ResponseError with ok = false and the status_code and
\* reason of the underlying response, whatever the body is.
C1_HttpFailureReturnsResponseError ==
    \A r \in Responses :
        (Sent(r) /\ ~r.ok) =>
            /\ last.exc = NoExc
            /\ last.ret = Returned("ResponseError", FALSE, r.status_code, r.reason,
                                   last.ret.error_code)

\* C2: a send_request in which the transport raises a RequestException does
\* not raise and returns a ResponseError whose error_code is the exception's
\* type name.
C2_TransportFailureReturnsResponseError ==
    (last.op = "send_request" /\ last.reply.raises) =>
        /\ last.exc = NoExc
        /\ last.ret.kind = "ResponseError"
        /\ last.ret.error_code = <<last.reply.exc.type>>

\* C3: violations never leak across calls: once a send_request has started,
\* a violation in the slot (dto_exc not None) was recorded during or after
\* the latest send_request, never before it.
C3_ViolationsNeverLeak ==
    (calls > 0 /\ contract_error.dto_exc # None) => recorded_in = calls

\* C3 witness: a send_request has returned on a driver whose slot held a
\* violation when the call started.
C3_Witness ==
    /\ last.op = "send_request"
    /\ last.pending
    /\ last.exc = NoExc
    /\ contract_error = EmptyContractViolation

C5_ValidateContract ==
    last.op = "validate_contract" =>
        /\ (last.exc # NoExc) <=> (contract_error.dto_exc # None)
        /\ last.exc = NoExc => last.ret = ReturnedNone
        /\ last.exc # NoExc =>
              /\ last.exc.type = "AssertionError"
              /\ Contains(last.exc.args[1], Str(method))
              /\ Contains(last.exc.args[1], Str(target))
              /\ Contains(last.exc.args[1], contract_error.dto_exc)
              /\ contract_error.dto_name # None
                    => Contains(last.exc.args[1], contract_error.dto_name)

\* C5 witness: validate_contract raised on a slot that names a DTO, after a
\* request was sent.
C5_Witness ==
    /\ last.op = "validate_contract"
    /\ last.exc # NoExc
    /\ contract_error.dto_name # None
    /\ method # None

\* What validate_contract would raise if it were called now
ValidateNow == validate_contract_exc(method, target, contract_error)

\* C6: immediately after a deserialize in which the DTO was constructed
\* without failure, validate_contract does not raise; immediately after one
\* in which construction failed, it raises with a message containing the
\* method, the target path and the issue text.
C6_ValidateAfterDeserialize ==
    last.op = "deserialize" =>
        /\ last.ctor = NoExc => ValidateNow = NoExc
        /\ last.ctor # NoExc =>
              /\ ValidateNow # NoExc
              /\ Contains(ValidateNow.args[1], Str(method))
              /\ Contains(ValidateNow.args[1], Str(target))
              /\ Contains(ValidateNow.args[1], <<last.ctor.type, ":">>)

\* C7: deserialize never propagates a DTO construction failure: it returns
\* None without raising, and the slot then holds a violation with the DTO's
\* name and a dto_exc naming the exception type.
C7_DeserializeNeverRaises ==
    (last.op = "deserialize" /\ last.ctor # NoExc) =>
        /\ last.exc = NoExc
        /\ last.ret = ReturnedNone
        /\ contract_error.dto_name = last.dto.name
        /\ Contains(contract_error.dto_exc, <<last.ctor.type, ":">>)

\* The body is a mapping, or a list whose first element is a mapping
DictShaped(doc) ==
    \/ doc.t = "dict"
    \/ doc.t = "list" /\ Len(doc.items) > 0 /\ doc.items[1].t = "dict"

\* C8: the shape check is advisory: a send_request with a 2xx response returns
\* the response without raising; with validate_json and a non-empty body the
\* slot then holds a DTO-less violation exactly when the body is not decodable
\* JSON or is neither a mapping nor a list whose first element is a mapping;
\* with validate_json false or an empty body no violation is recorded.
C8_ShapeCheckAdvisory ==
    \A r \in Responses :
        (Sent(r) /\ r.ok) =>
            LET checked == last.validate_json /\ r.content.size > 0
                decodable == r.content.utf8 /\ r.content.doc # JsonInvalid
            IN  /\ last.exc = NoExc
                /\ last.ret = ReturnedResponse(r)
                /\ (contract_error.dto_exc # None)
                       <=> (checked /\ ~(decodable /\ DictShaped(r.content.doc)))
                /\ contract_error.dto_name = None

\* C8 witness: a 2xx response with a list body whose first element is not a
\* mapping was checked and the violation recorded, the response returned.
C8_Witness ==
    /\ last.op = "send_request"
    /\ last.ret.kind = "Response"
    /\ last.ret.ok
    /\ last.validate_json
    /\ last.reply.response.content.doc.t = "list"
    /\ contract_error.dto_exc # None
    /\ contract_error.dto_name = None

----------------------------------------------------------------------------
\* Properties of the retry policy (checked under RetrySpec)

\* Every invocation so far raised the named exception
AllRaised(type) == \A i \in 1..Len(rs.outcomes) : rs.outcomes[i] = type

AllFailed == \A i \in 1..Len(rs.outcomes) : rs.outcomes[i] # "returned"

\* C9: with upon_exception=True, an action that raises RetryTrigger on every
\* invocation is invoked exactly max_retries times before the wrapper gives
\* up: never more, never fewer.
C9_ExactlyMaxAttempts ==
    (rs.upon_exception /\ AllRaised("RetryTrigger")) =>
        /\ Len(rs.outcomes) <= rs.max_retries
        /\ rs.pc = "done" => Len(rs.outcomes) = rs.max_retries

\* C9 witness: 3 attempts configured, the wrapper gave up after 3 invocations
\* that all raised RetryTrigger.
C9_Witness ==
    /\ rs.pc = "done"
    /\ rs.upon_exception
    /\ rs.max_retries = 3
    /\ Len(rs.outcomes) = 3
    /\ AllRaised("RetryTrigger")

\* The wrapper is done, every attempt failed and the budget is used up
Exhausted == rs.pc = "done" /\ AllFailed /\ Len(rs.outcomes) = rs.max_retries

FinalOutcome == rs.outcomes[Len(rs.outcomes)]

\* C11: with upon_exception=True only a RetryTrigger causes another attempt:
\* any other exception ends the call with that single failing invocation and
\* reaches the caller unchanged, with no log entry and no sleep after it; with
\* upon_exception=False any exception is retried while attempts remain.
C11_OnlyTriggerRetries ==
    /\ rs.upon_exception =>
          /\ \A i \in 1..(Len(rs.outcomes) - 1) : rs.outcomes[i] = "RetryTrigger"
          /\ (rs.pc = "done" /\ FinalOutcome = "ValueError") =>
                /\ rs.raised = "ValueError"
                /\ Len(rs.log) = Len(rs.outcomes) - 1
                /\ Len(rs.slept) = Len(rs.outcomes) - 1
    /\ ~rs.upon_exception =>
          /\ \A i \in 1..(Len(rs.outcomes) - 1) : rs.outcomes[i] # "returned"
          /\ (rs.pc = "done" /\ FinalOutcome # "returned") =>
                Len(rs.outcomes) = rs.max_retries

\* C11 witness: with upon_exception and 3 attempts configured, the second
\* invocation raised a ValueError, which reached the caller at once.
C11_Witness ==
    /\ rs.pc = "done"
    /\ rs.upon_exception
    /\ rs.max_retries = 3
    /\ rs.outcomes = <<"RetryTrigger", "ValueError">>
    /\ rs.raised = "ValueError"
    /\ Len(rs.slept) = 1

----------------------------------------------------------------------------
\* data_obj.py: try_get_api_version. A url's path is a sequence of tokens
\* (pieces of text); the token "/" is the character /, "." the character .,
\* "0".."9" a digit.

Digits == {"0", "1", "2"}

\* A path segment: its text, and what it is meant as: version is TRUE for "v"
\* followed by a version string, whose components comps are.
Segment(text, version, comps) == [text |-> text, version |-> version, comps |-> comps]

Segments ==
    { Segment(<<"foo">>, FALSE, <<>>),
      Segment(<<"api">>, FALSE, <<>>),
      Segment(<<"my", "api">>, FALSE, <<>>),
      Segment(<<"v", "2">>, TRUE, << <<"2">> >>),
      Segment(<<"v", "2", ".", "1">>, TRUE, << <<"2">>, <<"1">> >>),
      Segment(<<"v", "2", ".", "1", ".", "0">>, TRUE, << <<"2">>, <<"1">>, <<"0">> >>),
      Segment(<<"v", "1", "0", ".", "x">>, TRUE, << <<"1", "0">>, <<"x">> >>),
      Segment(<<"v", "2", "beta">>, TRUE, << <<"2", "beta">> >>),
      Segment(<<"v">>, FALSE, <<>>),
      Segment(<<"v", "ersion">>, FALSE, <<>>) }

\* The text of the path /s1/s2/.../sn
RECURSIVE PathOf(_)
PathOf(segs) ==
    IF segs = <<>> THEN <<>> ELSE <<"/">> \o segs[1].text \o PathOf(Tail(segs))

\* The urls the model resolves: a string url with the path of segs, a string
\* urlsplit rejects, or an object that is no string.
Url(kind, segs) == [kind |-> kind, segs |-> segs]

Urls ==
    { Url("str", segs) : segs \in UNION { [1..n -> Segments] : n \in 1..MaxSegments } }
        \cup { Url("malformed", <<>>), Url("None", <<>>), Url("int", <<>>) }

\* urllib.parse.urlsplit(url).path: the exception it raises, or the path
urlsplit_path(url) ==
    IF url.kind = "malformed"
    THEN [exc |-> Exc("ValueError", <<<<"Invalid", "IPv6", "URL">>>>), path |-> <<>>, bytes |-> FALSE]
    ELSE IF url.kind = "int"
    THEN [exc |-> Exc("AttributeError", <<<<"'int'", "object", "has", "no", "attribute", "'decode'">>>>),
          path |-> <<>>, bytes |-> FALSE]
    ELSE IF url.kind = "None"
    THEN [exc |-> NoExc, path |-> <<>>, bytes |-> TRUE]
    ELSE [exc |-> NoExc, path |-> PathOf(url.segs), bytes |-> FALSE]

\* The least index at which pat occurs in s, 0 if it does not
Find(s, pat) ==
    LET at == { i \in 1..Len(s) : i + Len(pat) - 1 <= Len(s)
                                   /\ SubSeq(s, i, i + Len(pat) - 1) = pat }
    IN  IF at = {} THEN 0 ELSE CHOOSE i \in at : \A j \in at : i <= j

\* s.split(sep): the pieces of s between the occurrences of sep
RECURSIVE Split(_, _)
Split(s, sep) ==
    LET i == Find(s, sep)
    IN  IF i = 0 THEN <<s>>
        ELSE <<SubSeq(s, 1, i - 1)>> \o Split(SubSeq(s, i + Len(sep), Len(s)), sep)

\* regex.search(url_split.path) for the pattern (api\/v[0-9]*): whether it matches
regex_search(path) == Find(path, <<"api", "/", "v">>) # 0

\* A version component as try_get_api_version returns it
NoVersion == [kind |-> "None", int |-> 0, str |-> <<>>]

IntVersion(n) == [kind |-> "int", int |-> n, str |-> <<>>]

StrVersion(text) == [kind |-> "str", int |-> 0, str |-> text]

DigitValue(d) == CASE d = "0" -> 0 [] d = "1" -> 1 [] d = "2" -> 2

\* int(ver_str) for a text of digits
RECURSIVE IntOf(_)
IntOf(ver_str) ==
    IF ver_str = <<>> THEN 0
    ELSE IntOf(SubSeq(ver_str, 1, Len(ver_str) - 1)) * 10 + DigitValue(ver_str[Len(ver_str)])

\* set_version without the conversion: the component stays a string
set_version_raw(ver_str) == StrVersion(ver_str)

\* set_version: int(ver_str), or ver_str itself when int() raises
set_version(ver_str) ==
    IF ver_str # <<>> /\ \A i \in 1..Len(ver_str) : ver_str[i] \in Digits
    THEN IntVersion(IntOf(ver_str))
    ELSE StrVersion(ver_str)

NoVersions == <<NoVersion, NoVersion, NoVersion>>

\* try_get_api_version(url): (api_version, api_minor_v, api_patch_v). Every
\* exception inside the try block leaves the three as they are, None.
try_get_api_version(url) ==
    LET u == urlsplit_path(url)
    IN  IF u.exc # NoExc \/ u.bytes THEN NoVersions
        ELSE IF ~regex_search(u.path) THEN NoVersions
        ELSE LET pieces == Split(u.path, <<"/", "api", "/", "v">>)
             IN  IF Len(pieces) < 2 THEN NoVersions
                 ELSE LET api_v_str == Split(pieces[2], <<"/">>)[1]
                          v_str_arr == Split(api_v_str, <<".">>)
                      IN  << set_version(v_str_arr[1]),
                             IF Len(v_str_arr) > 1 THEN set_version(v_str_arr[2]) ELSE NoVersion,
                             IF Len(v_str_arr) > 2 THEN set_version(v_str_arr[3]) ELSE NoVersion >>

\* A call of try_get_api_version is about to be made with url.
VersionInit ==
    /\ DriverInit
    /\ rs = IdleRetry
    /\ \E url \in Urls : fx = [fn |-> "try_get_api_version", pc |-> "call", url |-> url,
                              out |-> NoVersions]

\* The call returns.
resolve_version ==
    /\ fx.fn = "try_get_api_version"
    /\ fx.pc = "call"
    /\ fx' = [fx EXCEPT !.pc = "done", !.out = try_get_api_version(fx.url)]
    /\ UNCHANGED <<driver_vars, rs>>

VersionNext == resolve_version

\* One call of try_get_api_version.
VersionSpec == VersionInit /\ [][VersionNext]_vars

\* The call of try_get_api_version has returned
Resolved == fx.fn = "try_get_api_version" /\ fx.pc = "done"

\* The place of the first segment api of url that a segment starting with v
\* follows (the first /api/v of the path), 0 if there is none
FirstApiV(url) ==
    LET at == { i \in 1..(Len(url.segs) - 1) :
                    /\ url.segs[i].text = <<"api">>
                    /\ url.segs[i + 1].text[1] = "v" }
    IN  IF at = {} THEN 0 ELSE CHOOSE i \in at : \A j \in at : i <= j

\* The component a version string's i-th declared component stands for
Expected(comps, i) ==
    IF i > Len(comps) THEN NoVersion
    ELSE IF comps[i] = <<"2">> THEN IntVersion(2)
    ELSE IF comps[i] = <<"1">> THEN IntVersion(1)
    ELSE IF comps[i] = <<"0">> THEN IntVersion(0)
    ELSE IF comps[i] = <<"1", "0">> THEN IntVersion(10)
    ELSE StrVersion(comps[i])

\* C12: /api/v2.1.0/foo resolves to (2, 1, 0) and /foo to (None, None, None);
\* for a path that holds /api/v<a>[.<b>[.<c>]] each present component comes
\* back as an integer when it is numeric and as the raw string otherwise, and
\* each component that is not present as None.
C12_VersionResolved ==
    Resolved =>
        /\ fx.url = Url("str", <<Segment(<<"foo">>, FALSE, <<>>)>>) => fx.out = NoVersions
        /\ (fx.url.kind = "str" /\ FirstApiV(fx.url) # 0
                /\ fx.url.segs[FirstApiV(fx.url) + 1].version) =>
              LET comps == fx.url.segs[FirstApiV(fx.url) + 1].comps
              IN  fx.out = <<Expected(comps, 1), Expected(comps, 2), Expected(comps, 3)>>

\* C12 witness: /api/v2.1.0/foo was resolved to (2, 1, 0).
C12_Witness ==
    /\ Resolved
    /\ PathOf(fx.url.segs) =
           <<"/", "api", "/", "v", "2", ".", "1", ".", "0", "/", "foo">>
    /\ fx.out = <<IntVersion(2), IntVersion(1), IntVersion(0)>>

\* url has no segment api followed by a version segment
Unversioned(url) ==
    \/ url.kind # "str"
    \/ \A i \in 1..(Len(url.segs) - 1) :
           ~(url.segs[i].text = <<"api">> /\ url.segs[i + 1].version)

\* C13: for every input whose path holds no segment api/v<N>[.<N>[.<N>]] (no
\* version number after api/v, api/v only inside a longer segment, malformed
\* url, no string) try_get_api_version returns (None, None, None).
C13_NoVersionNoResult ==
    (Resolved /\ Unversioned(fx.url)) => fx.out = NoVersions

----------------------------------------------------------------------------
\* data_obj.py: the constructors of the envelope classes

Classes == {"SylphDataObject", "SylphCollectionDataObject", "ContractViolation", "ResponseError"}

\* The data arguments the model constructs with
DataArguments ==
    { NoData,
      PlainDict([errorCode |-> <<"E42">>]),
      SylphDataDict(Generator("automation"), [errorCode |-> <<"E42">>]),
      SylphDataDict(Generator("api_request"),
                    [dto_name |-> None, dto_path |-> None, dto_exc |-> None]),
      SylphDataDict(MetadataSource("api_request"), [id |-> <<"7">>]),
      SylphDataDict(OtherSource, [id |-> <<"7">>]) }

\* ContractViolation.__init__ after the base constructor: the exception of the
\* three lookups in metadata.source_data
contract_violation_lookups(source_data) ==
    IF source_data.t = "dict"
    THEN IF {"dto_name", "dto_path", "dto_exc"} \subseteq DOMAIN source_data.entries THEN NoExc
         ELSE Exc("KeyError", <<<<"'dto_name'">>>>)
    ELSE Exc("TypeError", <<<<"indices", "must", "be", "integers">>>>)

\* cls(response=response, data=data): the exception the constructor raises,
\* what self.metadata was set from, and for a ResponseError the instance.
construct(cls, response, data) ==
    LET base == SylphDataObject_init(response, data)
        out(exc, error) == [exc |-> exc, metadata_from |-> base.metadata_from, error |-> error]
    IN  IF cls = "ResponseError"
        THEN LET r == ResponseError_init(response, data) IN out(r.exc, r.obj)
        ELSE IF cls = "ContractViolation" /\ base.exc = NoExc
        THEN out(contract_violation_lookups(base.source_data), NoResponseError)
        ELSE out(base.exc, NoResponseError)

\* A constructor is about to be called.
ConstructInit ==
    /\ DriverInit
    /\ rs = IdleRetry
    /\ \E cls \in Classes, response \in Responses \cup {NoResponse}, data \in DataArguments :
           fx = [fn |-> "__init__", pc |-> "call", cls |-> cls, response |-> response,
                 data |-> data, out |-> construct("SylphDataObject", NoResponse, NoData)]

\* The constructor returns or raises.
construct_envelope ==
    /\ fx.fn = "__init__"
    /\ fx.pc = "call"
    /\ fx' = [fx EXCEPT !.pc = "done", !.out = construct(fx.cls, fx.response, fx.data)]
    /\ UNCHANGED <<driver_vars, rs>>

ConstructNext == construct_envelope

\* One construction of an envelope.
ConstructSpec == ConstructInit /\ [][ConstructNext]_vars

\* The constructor call is over
Constructed == fx.fn = "__init__" /\ fx.pc = "done"

\* C14: constructing a SylphDataObject, or any of its subclasses, with both a
\* response and a data argument always fails with SylphObjectInitException,
\* before any metadata is derived from either argument.
C14_BothArgumentsRejected ==
    (Constructed /\ fx.response # NoResponse /\ fx.data # NoData) =>
        /\ fx.out.exc.type = "SylphObjectInitException"
        /\ fx.out.metadata_from = "-"

\* C14 witness: a ResponseError was constructed with a response and a
\* SylphDataDict, and the constructor raised SylphObjectInitException.
C14_Witness ==
    /\ Constructed
    /\ fx.cls = "ResponseError"
    /\ fx.response # NoResponse
    /\ fx.data # NoData
    /\ fx.data.is_data_dict
    /\ fx.out.exc.type = "SylphObjectInitException"

\* C15: constructing a SylphDataObject from a data argument that lacks
\* metadata (a plain dict, or a SylphDataDict built with a data_source that is
\* neither a SylphDataGenerator nor a SylphRequestMetadata) fails with
\* SylphObjectInitException.
C15_DataWithoutMetadataRejected ==
    (Constructed /\ fx.response = NoResponse /\ fx.data # NoData /\ ~fx.data.has_metadata) =>
        fx.out.exc.type = "SylphObjectInitException"

\* C19: constructing a ResponseError succeeds for every unsuccessful exchange:
\* with an undecodable body error_code is the status_code and error_message
\* the reason; with a JSON object they are its errorCode and errorMessage; ok
\* is false, status_code and reason are the response's, and error_message
\* falls back to the response text when it is absent or empty.
C19_ResponseErrorFromAnyBody ==
    (Constructed /\ fx.cls = "ResponseError" /\ fx.data = NoData
         /\ fx.response # NoResponse /\ ~fx.response.ok) =>
        LET r == fx.response
            obj == fx.out.error
            entries == IF r.content.doc.t = "dict" THEN r.content.doc.entries ELSE <<>>
            code == IF r.content.doc.t = "dict"
                    THEN IF "errorCode" \in DOMAIN entries THEN entries.errorCode ELSE None
                    ELSE r.status_code
            message == IF r.content.doc.t = "dict"
                       THEN IF "errorMessage" \in DOMAIN entries THEN entries.errorMessage
                            ELSE None
                       ELSE r.reason
        IN  /\ fx.out.exc = NoExc
            /\ obj.set /\ ~obj.ok
            /\ obj.status_code = r.status_code
            /\ obj.reason = r.reason
            /\ (r.content.doc.t \in {"dict", "invalid"}) =>
                  /\ obj.error_code = code
                  /\ obj.error_message = IF message # None THEN message ELSE r.content.text

----------------------------------------------------------------------------
\* data_obj.py: the metadata objects of envelopes derived from one another.
\* Objects live in a heap (a sequence, an object's address is its index), so
\* that two envelopes holding the same object differ from two envelopes
\* holding equal objects. metadata.source_data is left out: it is reassigned to
\* the data argument after every copy.

\* A SylphRequestMetadata object; request_hdr is the address of a dict, 0 for None
MetadataObject(data_generator, request_url, request_hdr) ==
    [t |-> "metadata", data_generator |-> data_generator, request_url |-> request_url,
     request_hdr |-> request_hdr, api_version |-> None, api_minor_v |-> None,
     api_patch_v |-> None]

\* A headers dict object
HeadersObject(entries) == [t |-> "dict", entries |-> entries]

\* copy.copy in place of copy.deepcopy: the copy shares the headers dict
copy_shallow(heap, addr) == Append(heap, heap[addr])

\* copy.deepcopy(metadata): the heap with a copy of the metadata object at
\* addr, and of the headers dict it refers to, added at fresh addresses; the
\* copy of the metadata object is at Len(heap) + 1.
copy_deepcopy(heap, addr) ==
    IF heap[addr].request_hdr = 0
    THEN Append(heap, heap[addr])
    ELSE Append(heap, [heap[addr] EXCEPT !.request_hdr = Len(heap) + 2])
             \o <<heap[heap[addr].request_hdr]>>

\* An envelope (a bare SylphRequestMetadata, a SylphDataDict or a
\* SylphDataObject) and the address of its metadata
Envelope(kind, metadata) == [kind |-> kind, metadata |-> metadata]

\* The values a field of a metadata object is changed to
FieldValues ==
    { <<"data_generator", <<"app">>>>, <<"request_url", <<"https://y.example.com">>>>,
      <<"api_version", <<"2">>>>, <<"api_minor_v", <<"1">>>>, <<"api_patch_v", <<"0">>>> }

\* The entries a headers dict is given
HeaderEntries == {<<"Accept">>, <<"Accept", "Authorization">>}

\* A SylphRequestMetadata filled in by a request, with headers or without.
MetadataInit ==
    /\ DriverInit
    /\ rs = IdleRetry
    /\ \E heap \in { <<MetadataObject(<<"api_request">>, <<"https://x.example.com">>, 0)>>,
                     <<MetadataObject(<<"api_request">>, <<"https://x.example.com">>, 2),
                       HeadersObject(<<"Accept">>)>> } :
           fx = [fn |-> "metadata", heap |-> heap, envelopes |-> <<Envelope("metadata", 1)>>,
                 op |-> "-", through |-> 0, changes |-> 0]

\* SylphDataDict(data_source, data) for the metadata of envelope i as data_source
derive_data_dict(i) ==
    /\ fx.fn = "metadata"
    /\ Len(fx.envelopes) < MaxEnvelopes
    /\ i \in 1..Len(fx.envelopes)
    /\ fx' = [fx EXCEPT !.heap = copy_deepcopy(fx.heap, fx.envelopes[i].metadata),
                        !.envelopes = Append(@, Envelope("SylphDataDict", Len(fx.heap) + 1)),
                        !.op = "derive", !.through = 0]
    /\ UNCHANGED <<driver_vars, rs>>

\* SylphDataObject(data=d) for the SylphDataDict d that is envelope i
derive_data_object(i) ==
    /\ fx.fn = "metadata"
    /\ Len(fx.envelopes) < MaxEnvelopes
    /\ i \in 1..Len(fx.envelopes)
    /\ fx.envelopes[i].kind = "SylphDataDict"
    /\ fx' = [fx EXCEPT !.heap = copy_deepcopy(fx.heap, fx.envelopes[i].metadata),
                        !.envelopes = Append(@, Envelope("SylphDataObject", Len(fx.heap) + 1)),
                        !.op = "derive", !.through = 0]
    /\ UNCHANGED <<driver_vars, rs>>

\* e.metadata.<field> = value, for envelope i
set_field(i, field, value) ==
    /\ fx.fn = "metadata"
    /\ fx.changes < MaxChanges
    /\ i \in 1..Len(fx.envelopes)
    /\ fx' = [fx EXCEPT !.heap[fx.envelopes[i].metadata][field] = value,
                        !.op = "change", !.through = i, !.changes = @ + 1]
    /\ UNCHANGED <<driver_vars, rs>>

\* e.metadata.request_hdr = None, or = a new dict, for envelope i
set_request_hdr(i, entries) ==
    /\ fx.fn = "metadata"
    /\ fx.changes < MaxChanges
    /\ i \in 1..Len(fx.envelopes)
    /\ fx' = [fx EXCEPT !.heap = IF entries = None
                                 THEN [fx.heap EXCEPT ![fx.envelopes[i].metadata].request_hdr = 0]
                                 ELSE Append([fx.heap EXCEPT ![fx.envelopes[i].metadata].request_hdr
                                                                 = Len(fx.heap) + 1],
                                             HeadersObject(entries)),
                        !.op = "change", !.through = i, !.changes = @ + 1]
    /\ UNCHANGED <<driver_vars, rs>>

\* e.metadata.request_hdr[...] = ..., a change of the dict in place, for envelope i
update_request_hdr(i, entries) ==
    /\ fx.fn = "metadata"
    /\ fx.changes < MaxChanges
    /\ i \in 1..Len(fx.envelopes)
    /\ fx.heap[fx.envelopes[i].metadata].request_hdr # 0
    /\ fx' = [fx EXCEPT !.heap[fx.heap[fx.envelopes[i].metadata].request_hdr].entries = entries,
                        !.op = "change", !.through = i, !.changes = @ + 1]
    /\ UNCHANGED <<driver_vars, rs>>

MetadataNext ==
    \E i \in 1..MaxEnvelopes :
        \/ derive_data_dict(i)
        \/ derive_data_object(i)
        \/ \E fv \in FieldValues : set_field(i, fv[1], fv[2])
        \/ \E entries \in HeaderEntries \cup {None} : set_request_hdr(i, entries)
        \/ \E entries \in HeaderEntries : update_request_hdr(i, entries)

\* Envelopes derived from one request's metadata, and changes made through them.
MetadataSpec == MetadataInit /\ [][MetadataNext]_vars

\* What is read through envelope i's metadata in the state f: its fields, and
\* the contents of its request_hdr
MetadataView(f, i) ==
    LET m == f.heap[f.envelopes[i].metadata]
    IN  [fields |-> [m EXCEPT !.request_hdr = 0],
         request_hdr |-> IF m.request_hdr = 0 THEN <<"None">>
                         ELSE <<"dict">> \o f.heap[m.request_hdr].entries]

\* No two envelopes of the state f hold the same metadata object
DistinctMetadata(f) ==
    \A i, j \in 1..Len(f.envelopes) :
        i # j => f.envelopes[i].metadata # f.envelopes[j].metadata

\* C18: metadata is never aliased between envelopes: an envelope derived from
\* another (a SylphDataDict from a SylphRequestMetadata, a SylphDataObject from
\* a SylphDataDict) holds a distinct metadata object, and a change made to a
\* field of one envelope's metadata, or to the contents of its request_hdr, is
\* not visible through any other envelope's metadata.
C18_MetadataNeverAliased ==
    [][/\ DistinctMetadata(fx')
       /\ fx'.op = "change" =>
              \A i \in 1..Len(fx.envelopes) :
                  i # fx'.through => MetadataView(fx', i) = MetadataView(fx, i)]_vars

\* C18 witness: a SylphDataObject was derived from a SylphDataDict derived from
\* a metadata with headers, and the headers of one were then changed in place.
C18_Witness ==
    /\ fx.fn = "metadata"
    /\ Len(fx.envelopes) = 3
    /\ fx.envelopes[2].kind = "SylphDataDict"
    /\ fx.envelopes[3].kind = "SylphDataObject"
    /\ fx.op = "change"
    /\ fx.through = 1
    /\ fx.heap[2] = HeadersObject(<<"Accept", "Authorization">>)
    /\ fx.heap[4] = HeadersObject(<<"Accept">>)

----------------------------------------------------------------------------
\* data_obj.py: dump_data, __eq__ and get_unprocessed_data of an envelope

\* A payload value that is neither a mapping nor an envelope
Scalar(v) == [t |-> "scalar", v |-> v]

\* An instance of cls, a SylphDataObject or a subclass: metadata.source_data
\* and the attributes the class's constructor set on it (name -> value)
DataObject(cls, source_data, attrs) ==
    [t |-> "object", cls |-> cls, source_data |-> source_data, attrs |-> attrs]

\* cls(data=SylphDataDict(origin, payload)) for a constructor that sets attrs
DataObjectOf(cls, origin, payload, attrs) ==
    DataObject(cls, SylphDataObject_init(NoResponse,
                                         SylphDataDict(Generator(origin), payload)).source_data,
               attrs)

\* cls(), the object built with neither argument
EmptyDataObject(cls) ==
    DataObject(cls, SylphDataObject_init(NoResponse, NoData).source_data, <<>>)

\* The keys of the payloads, in the order they were inserted in
KeyOrder == <<"a", "b", "m", "x", "metadata">>

\* dict.keys() in iteration order
KeysOf(entries) == SelectSeq(KeyOrder, LAMBDA k : k \in DOMAIN entries)

\* The payloads (dicts) with keys among keys and values among values
PayloadsOver(keys, values) == UNION { [S -> values] : S \in SUBSET keys }

\* source_data.keys() of a source_data that is a list
NoKeys == Exc("AttributeError", <<<<"'list'", "object", "has", "no", "attribute", "'keys'">>>>)

RECURSIVE dump_data(_)
\* obj.dump_data(): the exception raised, or the dict returned
dump_data(obj) ==
    IF obj.source_data.t # "dict" THEN [exc |-> NoKeys, val |-> JsonInvalid]
    ELSE LET entries == obj.source_data.entries
             sub == [key \in DOMAIN entries |->
                        IF entries[key].t = "object" THEN dump_data(entries[key])
                        ELSE [exc |-> NoExc, val |-> entries[key]]]
             failed == SelectSeq(KeysOf(entries), LAMBDA key : sub[key].exc # NoExc)
         IN  IF failed # <<>> THEN [exc |-> sub[Head(failed)].exc, val |-> JsonInvalid]
             ELSE [exc |-> NoExc, val |-> JsonDict([key \in DOMAIN entries |-> sub[key].val])]

\* The values of the payloads that are dumped
DumpValues ==
    { Scalar(<<"1">>), Scalar(<<"2">>), JsonDict([x |-> Scalar(<<"1">>)]),
      DataObjectOf("SylphDataObject", "automation", [x |-> Scalar(<<"1">>)], <<>>),
      DataObjectOf("SylphCollectionDataObject", "api_request",
                   [x |-> DataObjectOf("SylphDataObject", "automation",
                                       [x |-> Scalar(<<"2">>)], <<>>)], <<>>),
      EmptyDataObject("SylphDataObject") }

\* The calls of dump_data on a new object
DumpCalls ==
    { [fn |-> "dump_data", pc |-> "call", origin |-> origin, payload |-> payload,
       out |-> [exc |-> NoExc, val |-> JsonInvalid]] :
          origin \in {"automation", "api_request", "app"},
          payload \in PayloadsOver({"a", "b"}, DumpValues) }

\* SylphDataObject(data=SylphDataDict(origin, payload)).dump_data()
dump_new_object ==
    /\ fx.fn = "dump_data"
    /\ fx.pc = "call"
    /\ fx' = [fx EXCEPT !.pc = "done",
                        !.out = dump_data(DataObjectOf("SylphDataObject", fx.origin,
                                                       fx.payload, <<>>))]
    /\ UNCHANGED <<driver_vars, rs>>

\* The envelope classes compared, the last one a DTO class of the caller
EnvelopeClasses == {"SylphDataObject", "SylphCollectionDataObject", "UserDto"}

\* issubclass(cls, base): every envelope class derives from SylphDataObject only
is_subclass(cls, base) == cls = base \/ base = "SylphDataObject"

\* isinstance(other, cls)
isinstance(other, cls) == other.t = "object" /\ is_subclass(other.cls, cls)

\* self == other, which is self.__eq__(other): no envelope class returns
\* NotImplemented, and no subclass overrides __eq__
eq(self, other) ==
    IF ~isinstance(other, self.cls) THEN FALSE
    ELSE LET mine == dump_data(self)
             theirs == dump_data(other)
         IN  IF mine.exc # NoExc \/ theirs.exc # NoExc THEN FALSE
             ELSE mine.val = theirs.val

\* The operands of ==: envelopes of each class over a few payloads, the empty
\* object of each class, and for the right operand a value that is no envelope
EqOperands ==
    { DataObjectOf(cls, "automation", payload, <<>>) :
          cls \in EnvelopeClasses,
          payload \in PayloadsOver({"a"}, {Scalar(<<"1">>), Scalar(<<"2">>),
                                          EmptyDataObject("SylphDataObject")}) }
    \cup { EmptyDataObject(cls) : cls \in EnvelopeClasses }

\* The calls of ==
EqCalls ==
    { [fn |-> "__eq__", pc |-> "call", self |-> self, other |-> other, out |-> [equal |-> FALSE]] :
          self \in EqOperands, other \in EqOperands \cup {Scalar(<<"1">>)} }

\* self == other
compare ==
    /\ fx.fn = "__eq__"
    /\ fx.pc = "call"
    /\ fx' = [fx EXCEPT !.pc = "done", !.out = [equal |-> eq(fx.self, fx.other)]]
    /\ UNCHANGED <<driver_vars, rs>>

\* Members every envelope has, whatever its class declares
BuiltinMembers == {"metadata", "dump_data", "get_unprocessed_data"}

\* hasattr that sees no attribute set by the class
hasattr_builtin(obj, key) == key \in BuiltinMembers

\* hasattr(obj, key)
hasattr(obj, key) == key \in DOMAIN obj.attrs \/ key \in BuiltinMembers

\* issubclass(type(obj.__getattribute__(key)), SylphDataObject), for a key
\* that hasattr accepts
attribute_is_object(obj, key) == key \in DOMAIN obj.attrs /\ obj.attrs[key].t = "object"

\* f"{class_name}.{key}"
QualifiedName(class_name, key) == <<class_name, ".", key>>

RECURSIVE get_unprocessed_data(_, _)
RECURSIVE unprocessed_keys(_, _, _, _, _)

\* The loop of get_unprocessed_data over keys, the keys of entries from the
\* current one on: the keys of source_data (top) or the sub-keys of one of its
\* mappings. acc is the exception raised so far and new_data.
unprocessed_keys(obj, entries, keys, top, acc) ==
    IF keys = <<>> \/ acc.exc # NoExc THEN acc
    ELSE LET key == Head(keys)
             step == IF hasattr(obj, key)
                     THEN IF attribute_is_object(obj, key)
                          THEN get_unprocessed_data(obj.attrs[key], acc.val)
                          ELSE acc
                     ELSE IF top /\ entries[key].t = "dict"
                     THEN unprocessed_keys(obj, entries[key].entries,
                                           KeysOf(entries[key].entries), FALSE, acc)
                     ELSE [acc EXCEPT !.val = Append(@, QualifiedName(obj.cls, key))]
         IN  unprocessed_keys(obj, entries, Tail(keys), top, step)

\* obj.get_unprocessed_data(new_data): the exception raised, or the list returned
get_unprocessed_data(obj, new_data) ==
    IF obj.source_data.t # "dict" THEN [exc |-> NoKeys, val |-> new_data]
    ELSE unprocessed_keys(obj, obj.source_data.entries, KeysOf(obj.source_data.entries),
                          TRUE, [exc |-> NoExc, val |-> new_data])

\* The values of the payloads that are audited
AuditValues ==
    { Scalar(<<"1">>), Scalar(<<"2">>), JsonDict([b |-> Scalar(<<"3">>)]), JsonDict(<<>>) }

\* The values of the attributes a DTO sets: a plain value or a nested DTO of
\* the same class
AttributeValues ==
    { Scalar(<<"1">>), DataObjectOf("UserDto", "api_request", [a |-> Scalar(<<"1">>)], <<>>) }

\* The calls of get_unprocessed_data on a DTO
AuditCalls ==
    { [fn |-> "get_unprocessed_data", pc |-> "call",
       self |-> DataObjectOf("UserDto", "api_request", payload, attrs),
       out |-> [exc |-> NoExc, val |-> <<>>]] :
          payload \in PayloadsOver({"a", "b", "m", "metadata"}, AuditValues),
          attrs \in PayloadsOver({"a", "b"}, AttributeValues) }

\* self.get_unprocessed_data()
audit ==
    /\ fx.fn = "get_unprocessed_data"
    /\ fx.pc = "call"
    /\ fx' = [fx EXCEPT !.pc = "done", !.out = get_unprocessed_data(fx.self, <<>>)]
    /\ UNCHANGED <<driver_vars, rs>>

\* The orders in which the keys of entries can have been inserted
InsertionOrders(entries) ==
    { order \in [1..Cardinality(DOMAIN entries) -> DOMAIN entries] :
          \A i, j \in DOMAIN order : i # j => order[i] # order[j] }

\* hash(obj) for an object whose source_data had its keys inserted in the
\* order keys: the exception raised, or the hash, which is that of the text
\* str(source_data.keys()), "dict_keys([...])" with the keys in insertion
\* order. The hash of a text is written as the text: equal texts have equal
\* hashes, and different texts have different hashes but for a collision.
hash(obj, keys) ==
    IF obj.source_data.t # "dict" THEN [exc |-> NoKeys, val |-> <<>>]
    ELSE [exc |-> NoExc, val |-> <<"dict_keys([">> \o keys \o <<"])">>]

\* The objects that are hashed
HashOperands ==
    { DataObjectOf("SylphDataObject", "automation", payload, <<>>) :
          payload \in PayloadsOver({"a", "b"}, {Scalar(<<"1">>), Scalar(<<"2">>)}) }
    \cup {EmptyDataObject("SylphDataObject")}

\* The insertion orders of an operand's source_data
OrdersOf(obj) ==
    IF obj.source_data.t = "dict" THEN InsertionOrders(obj.source_data.entries) ELSE {<<>>}

\* The calls that compare and hash two objects
HashCalls ==
    UNION { { [fn |-> "__hash__", pc |-> "call", self |-> x, other |-> y,
               self_keys |-> x_keys, other_keys |-> y_keys,
               out |-> [equal |-> FALSE, hash_self |-> hash(x, x_keys),
                        hash_other |-> hash(y, y_keys)]] :
                  x_keys \in OrdersOf(x), y_keys \in OrdersOf(y) } :
            x \in HashOperands, y \in HashOperands }

\* self == other, hash(self) and hash(other)
compare_hashes ==
    /\ fx.fn = "__hash__"
    /\ fx.pc = "call"
    /\ fx' = [fx EXCEPT !.pc = "done",
                        !.out = [equal |-> eq(fx.self, fx.other),
                                 hash_self |-> hash(fx.self, fx.self_keys),
                                 hash_other |-> hash(fx.other, fx.other_keys)]]
    /\ UNCHANGED <<driver_vars, rs>>

\* One of the methods is about to be called on an envelope.
EnvelopeInit ==
    /\ DriverInit
    /\ rs = IdleRetry
    /\ fx \in DumpCalls \cup EqCalls \cup AuditCalls \cup HashCalls

EnvelopeNext == dump_new_object \/ compare \/ audit \/ compare_hashes

\* One call of dump_data, ==, get_unprocessed_data or hash.
EnvelopeSpec == EnvelopeInit /\ [][EnvelopeNext]_vars

\* A call of the named method is over
Called(fn) == fx.fn = fn /\ fx.pc = "done"

\* C16: round trip: for every payload mapping P,
\* SylphDataObject(data=SylphDataDict(origin, P)).dump_data() returns a
\* structure equal to P in which every value that is a SylphDataObject is
\* replaced by its own dump_data() and every other value is unchanged.
C16_DumpRoundTrip ==
    Called("dump_data") =>
        /\ fx.out.exc = NoExc
        /\ fx.out.val.t = "dict"
        /\ DOMAIN fx.out.val.entries = DOMAIN fx.payload
        /\ \A key \in DOMAIN fx.payload :
               fx.out.val.entries[key] = IF fx.payload[key].t = "object"
                                         THEN dump_data(fx.payload[key]).val
                                         ELSE fx.payload[key]

\* C17: two envelopes whose dump_data() return are equal (==) if and only if
\* their dump_data() outputs are equal, whatever classes they are instances of.
C17_EqualIffDumpsEqual ==
    (/\ Called("__eq__")
     /\ fx.other.t = "object"
     /\ dump_data(fx.self).exc = NoExc
     /\ dump_data(fx.other).exc = NoExc) =>
        (fx.out.equal <=> dump_data(fx.self).val = dump_data(fx.other).val)

\* How many times x occurs in the list seq
Count(seq, x) == Cardinality({i \in DOMAIN seq : seq[i] = x})

\* The payload key has a value that is no mapping, and the envelope no
\* attribute of its name
Unmapped(obj, key) ==
    /\ key \in DOMAIN obj.source_data.entries
    /\ obj.source_data.entries[key].t # "dict"
    /\ ~hasattr(obj, key)

\* The payload is {"a": 1, "b": 2} and the class sets the attribute a only, to
\* a plain value
ExampleDto(obj) ==
    /\ obj.source_data.entries = [a |-> Scalar(<<"1">>), b |-> Scalar(<<"2">>)]
    /\ DOMAIN obj.attrs = {"a"}
    /\ obj.attrs.a.t = "scalar"

\* C20 as stated: get_unprocessed_data on an envelope of type T backed by
\* {"a": 1, "b": 2}, where T exposes only attribute a, returns ["T.b"]; every
\* top-level payload key whose value is not a mapping and that has no
\* same-named attribute appears exactly once in the result as "T.<key>", and no
\* key that has a same-named attribute appears.
C20_EachUnmappedKeyOnce ==
    Called("get_unprocessed_data") =>
        /\ ExampleDto(fx.self) => fx.out.val = <<QualifiedName(fx.self.cls, "b")>>
        /\ \A key \in DOMAIN fx.self.source_data.entries :
               /\ Unmapped(fx.self, key) =>
                      Count(fx.out.val, QualifiedName(fx.self.cls, key)) = 1
               /\ hasattr(fx.self, key) =>
                      Count(fx.out.val, QualifiedName(fx.self.cls, key)) = 0

\* Nothing but the top-level key itself can put the key's qualified name in
\* the result: no mapping under an attribute-less key has a sub-key of that
\* name without attribute, and no attribute of the envelope is an envelope
NoOtherSource(obj, key) ==
    /\ \A a \in DOMAIN obj.attrs : obj.attrs[a].t # "object"
    /\ \A j \in DOMAIN obj.source_data.entries :
           (~hasattr(obj, j) /\ obj.source_data.entries[j].t = "dict") =>
               (key \notin DOMAIN obj.source_data.entries[j].entries \/ hasattr(obj, key))

\* C20, amended: the example returns ["T.b"]; every top-level payload key
\* whose value is not a mapping and that has no same-named attribute appears at
\* least once as "T.<key>"; it appears exactly once, and a key with a
\* same-named attribute or a mapping value does not appear, when neither a
\* mapping's sub-key nor a nested envelope reports the same qualified name.
C20_UnmappedKeysReported ==
    Called("get_unprocessed_data") =>
        /\ fx.out.exc = NoExc
        /\ ExampleDto(fx.self) => fx.out.val = <<QualifiedName(fx.self.cls, "b")>>
        /\ \A key \in DOMAIN fx.self.source_data.entries :
               /\ Unmapped(fx.self, key) =>
                      Count(fx.out.val, QualifiedName(fx.self.cls, key)) >= 1
               /\ NoOtherSource(fx.self, key) =>
                      Count(fx.out.val, QualifiedName(fx.self.cls, key))
                          = IF Unmapped(fx.self, key) THEN 1 ELSE 0

\* C20 witness: the audit of the example returned ["UserDto.b"].
C20_Witness ==
    /\ Called("get_unprocessed_data")
    /\ ExampleDto(fx.self)
    /\ fx.out.val = <<QualifiedName("UserDto", "b")>>

\* C21: an empty result of get_unprocessed_data signals that the declared type
\* fully covers the payload: whenever the returned list is empty, every key of
\* the backing payload (a key with a mapping value and a key named like a
\* built-in member included) is an attribute the DTO declared.
C21_EmptyResultMeansCovered ==
    (Called("get_unprocessed_data") /\ fx.out.exc = NoExc /\ fx.out.val = <<>>) =>
        \A key \in DOMAIN fx.self.source_data.entries : key \in DOMAIN fx.self.attrs

----------------------------------------------------------------------------
\* pages.py: the polling loops of BasePageSe

\* What one poll of elem() gives is_element_available: elem() or a method of
\* the element raises, or the element reports not displayed, displayed but not
\* enabled, or displayed and enabled
ElementPolls == {"raises", "hidden", "disabled", "available"}

\* What one poll of condition() gives wait_for_condition: it raises, or returns
\* False, a value that is true but is not True, or True
ConditionPolls == {"raises", "False", "truthy", "True"}

\* The outcomes of a poll of the function fn
PollsOf(fn) == IF fn = "is_element_available" THEN ElementPolls ELSE ConditionPolls

\* The test in the try block that ends the loop with break
poll_breaks(fn, outcome) ==
    IF fn = "is_element_available" THEN outcome = "available" ELSE outcome = "True"

\* By how much span(since, beginning) grows over one iteration: time.sleep(1)
\* takes a second at least, the poll takes time too, and the span is rounded
SpanSteps == {1, 2}

\* is_element_available(elem, wait) or wait_for_condition(condition, wait) is
\* called: w counts the iterations of "for w in range(0, wait)" begun.
PollInit ==
    /\ DriverInit
    /\ rs = IdleRetry
    /\ \E fn \in {"is_element_available", "wait_for_condition"}, wait \in 0..MaxWait :
           fx = [fn |-> fn, pc |-> "for", wait |-> wait, w |-> 0, span |-> 0,
                 polls |-> <<>>, result |-> "-"]

\* One pass of the try block: break if the poll gave what is waited for
poll(outcome) ==
    /\ fx.fn \in {"is_element_available", "wait_for_condition"}
    /\ fx.pc = "for"
    /\ fx.w < fx.wait
    /\ outcome \in PollsOf(fx.fn)
    /\ fx' = [fx EXCEPT !.w = @ + 1, !.polls = Append(@, outcome),
                        !.pc = IF poll_breaks(fx.fn, outcome) THEN "break" ELSE "sleep"]
    /\ UNCHANGED <<driver_vars, rs>>

\* time.sleep(1), then the test "span >= wait": return False, or raise
\* TimeoutError, if it holds
sleep_then_check(step) ==
    /\ fx.fn \in {"is_element_available", "wait_for_condition"}
    /\ fx.pc = "sleep"
    /\ LET span == fx.span + step
       IN  fx' = IF span >= fx.wait
                 THEN [fx EXCEPT !.span = span, !.pc = "done",
                                 !.result = IF fx.fn = "is_element_available" THEN "False"
                                            ELSE "TimeoutError"]
                 ELSE [fx EXCEPT !.span = span, !.pc = "for"]
    /\ UNCHANGED <<driver_vars, rs>>

\* The code after the loop, reached by break or when range(0, wait) is used
\* up: is_element_available returns True, wait_for_condition returns
after_loop ==
    /\ fx.fn \in {"is_element_available", "wait_for_condition"}
    /\ fx.pc = "break" \/ (fx.pc = "for" /\ fx.w >= fx.wait)
    /\ fx' = [fx EXCEPT !.pc = "done",
                        !.result = IF fx.fn = "is_element_available" THEN "True" ELSE "None"]
    /\ UNCHANGED <<driver_vars, rs>>

PollNext ==
    \/ \E outcome \in ElementPolls \cup ConditionPolls : poll(outcome)
    \/ \E step \in SpanSteps : sleep_then_check(step)
    \/ after_loop

\* One call of a polling loop.
PollSpec == PollInit /\ [][PollNext]_vars

\* A poll of the call gave what the call waits for
Observed == \E i \in DOMAIN fx.polls : poll_breaks(fx.fn, fx.polls[i])

\* C22: is_element_available(elem, wait) returns True only if some poll of the
\* call returned an element that reported displayed and enabled, and returns
\* False if no poll did within the wait time, for every wait >= 0 and also
\* when elem() raises on every poll.
C22_TrueOnlyIfObserved ==
    (fx.fn = "is_element_available" /\ fx.pc = "done") =>
        /\ fx.result = "True" => Observed
        /\ ~Observed => fx.result = "False"

\* C23: wait_for_condition(condition, wait) returns normally only if some poll
\* of condition() returned True, and raises TimeoutError if none did within
\* the wait time, for every wait >= 0.
C23_ReturnsOnlyIfConditionMet ==
    (fx.fn = "wait_for_condition" /\ fx.pc = "done") =>
        /\ fx.result = "None" => Observed
        /\ ~Observed => fx.result = "TimeoutError"

----------------------------------------------------------------------------
\* Further properties of the driver (checked under Spec)

C26_MessageNamesProducingRequest ==
    [][(/\ last.op = "deserialize"
        /\ last.ctor # NoExc
        /\ last.exc = NoExc
        /\ last'.op = "validate_contract") =>
           /\ last'.exc.type = "AssertionError"
           /\ Contains(last'.exc.args[1],
                       Str(received.request.method) \o Str(received.request.path))]_vars

----------------------------------------------------------------------------
\* Further properties of the retry policy (checked under RetrySpec)

\* C25: between any two consecutive attempts of a retriable-wrapped action the
\* wait is the configured retry_interval (no growth, no jitter); a run with k
\* attempts sleeps exactly k-1 times, never after the final attempt, and the
\* before-sleep log entry written ahead of the i-th sleep reports attempt
\* ordinal i (1-based) and that interval.
C25_FixedIntervalBetweenAttempts ==
    /\ \A i \in DOMAIN rs.slept : rs.slept[i] = rs.retry_interval
    /\ \A i \in DOMAIN rs.log :
           rs.log[i].attempt = i /\ rs.log[i].sleep = rs.retry_interval
    /\ rs.pc \in {"iter", "done"} =>
           /\ Len(rs.slept) = Len(rs.outcomes) - 1
           /\ Len(rs.log) = Len(rs.slept)
    /\ rs.pc = "sleep" => Len(rs.log) = Len(rs.slept) + 1

\* C25 witness: a run of three attempts with retry_interval 5 is over: it slept
\* twice.
C25_Witness ==
    /\ rs.pc = "done"
    /\ rs.retry_interval = 5
    /\ Len(rs.outcomes) = 3
    /\ rs.slept = <<5, 5>>

\* C27: a retriable-wrapped action is never invoked again after an invocation
\* that returned normally: the wrapper returns that invocation's result at
\* once, so the number of invocations is the index of the first successful
\* attempt (at most max_retries).
C27_NoAttemptAfterSuccess ==
    \A i \in DOMAIN rs.outcomes :
        rs.outcomes[i] = "returned" =>
            /\ i = Len(rs.outcomes)
            /\ i <= rs.max_retries
            /\ rs.pc \in {"iter", "done"}
            /\ rs.pc = "done" => (rs.result = "returned" /\ rs.raised = "-")

\* C27 witness: the second of at most three attempts returned, and the
\* wrapper returned.
C27_Witness ==
    /\ rs.pc = "done"
    /\ rs.max_retries = 3
    /\ Len(rs.outcomes) = 2
    /\ rs.outcomes[1] # "returned"
    /\ rs.result = "returned"

----------------------------------------------------------------------------
\* Further properties of the envelopes (checked under EnvelopeSpec)

\* C28: hashing is consistent with equality: for any two envelopes a and b
\* with a == b (equal dump_data(), also when the same entries were inserted
\* in a different key order), hash(a) and hash(b) are defined and equal.
C28_EqualObjectsHashEqual ==
    (Called("__hash__") /\ fx.out.equal) =>
        /\ fx.out.hash_self.exc = NoExc
        /\ fx.out.hash_other.exc = NoExc
        /\ fx.out.hash_self.val = fx.out.hash_other.val

\* C29: equality of envelopes is reflexive: for every successfully constructed
\* SylphDataObject x, the object built with neither a response nor a data
\* argument included, x == x is true and dump_data() returns without raising.
C29_EqualityReflexive ==
    (Called("__eq__") /\ fx.self = fx.other) =>
        /\ fx.out.equal
        /\ dump_data(fx.self).exc = NoExc

----------------------------------------------------------------------------
\* sylphsession.py, session.py: _get_solution_project_path. A directory is the
\* sequence of the names on its path from the filesystem root, the root <<>>.

\* SylphSession.TEST_ROOT_DIR
TEST_ROOT_DIR == "tests"

DirectoryNames == {TEST_ROOT_DIR, "home", "project"}

\* Path.name: the last component, the empty text for the root
PathName(path) == IF path = <<>> THEN "" ELSE path[Len(path)]

\* os.path.dirname of a directory, and Path.parent: the root is its own parent
dirname(path) == IF path = <<>> THEN <<>> ELSE SubSeq(path, 1, Len(path) - 1)

\* "cwd.name is not TEST_ROOT_DIR": pathlib interns the components of a path
\* and the constant is interned, so the identity test is the comparison of
\* the two names
not_in_tests(cwd) == PathName(cwd) # TEST_ROOT_DIR

\* The session is created in some working directory; odd is whether the
\* number of passes of the loop body made so far is odd, which makes a pass
\* made at the root a step like any other.
ClimbInit ==
    /\ DriverInit
    /\ rs = IdleRetry
    /\ \E depth \in 0..MaxDepth :
           \E cwd \in [1..depth -> DirectoryNames] :
               fx = [fn |-> "_get_solution_project_path", pc |-> "while", cwd |-> cwd,
                     odd |-> FALSE, result |-> <<>>]

\* One pass of the loop body: os.chdir(os.path.dirname(os.getcwd()))
climb ==
    /\ fx.fn = "_get_solution_project_path"
    /\ fx.pc = "while"
    /\ not_in_tests(fx.cwd)
    /\ fx' = [fx EXCEPT !.cwd = dirname(fx.cwd), !.odd = ~@]
    /\ UNCHANGED <<driver_vars, rs>>

\* The loop ends: return Path.cwd().parent
return_parent ==
    /\ fx.fn = "_get_solution_project_path"
    /\ fx.pc = "while"
    /\ ~not_in_tests(fx.cwd)
    /\ fx' = [fx EXCEPT !.pc = "done", !.result = dirname(fx.cwd)]
    /\ UNCHANGED <<driver_vars, rs>>

ClimbNext == climb \/ return_parent

\* One call of _get_solution_project_path; the loop does not stop of itself
\* before its test fails.
ClimbSpec == ClimbInit /\ [][ClimbNext]_vars /\ WF_vars(ClimbNext)

\* C30: _get_solution_project_path terminates for every starting working
\* directory, also when no enclosing directory is named 'tests'.
C30_ClimbTerminates == <>(fx.pc = "done")

====
